---- MODULE Spec2Model ----
(***************************************************************************)
(* Model of services/orchest-api/app/app/utils.py:                         *)
(*   - update_status_db, the guarded status update of a tracked entity,    *)
(*     called concurrently by the orchest-api and by celery tasks;         *)
(*   - OrchestSettings, the layered global configuration, with its save    *)
(*     also taken statement by statement next to another process;          *)
(*   - wait_for_pod_status, the polling of a pod's phase.                  *)
(***************************************************************************)
EXTENDS Integers, Sequences, FiniteSets, TLC

VARIABLES
    rows,       \* the table of the model: row id -> row
    pc,         \* writer -> "idle" | "query" | "returned" | "raised"
    data,       \* writer -> the status_update dict of its call (parsed in place)
    filter_by,  \* writer -> the filter_by dict of its call
    ret,        \* writer -> the value its last call returned
    exc,        \* writer -> the exception its last call raised, or "none"
    live,       \* writer -> rows that matched its filter and were not in an
                \*           end state when the call began (history)
    ncalls,     \* number of calls begun so far; also the clock of the callers
    _cloud,     \* OrchestSettings._cloud, the operating mode of the process
    settings,   \* the rows of models.Setting: name -> value (a JSON object)
    alive,      \* an OrchestSettings object has been constructed
    unmodifiable_config,  \* self._values.maps[0]
    current_config,       \* self._values.maps[1]
    fetched,    \* what _fetch_settings_from_db returned to the constructor (history)
    op,         \* the last call: "none" | "__init__" | "update" | "set" | "save"
    arg_changed,  \* the last call changed the items of the dict it was given
    raised,     \* the exception that left the last call, or "none"
    result,     \* what the last call returned
    tx_pc,      \* the save in progress: "idle" | "upserted" | "deleted"
    session,    \* the rows as the open transaction of db.session has them
    before,     \* the committed rows when the save in progress began (history)
    seen,       \* what another process last fetched during the last save
    pod_pc,     \* wait_for_pod_status: "idle" | "loop" | "returned" | "raised"
    max_retries,        \* its local max_retries
    given,              \* the max_retries it was called with (history)
    expected_statuses,  \* the expected_statuses it was called with
    resps,      \* the answers of read_namespaced_pod so far (history)
    pod_exc     \* the exception that left it, or "none"

dbvars == <<rows, pc, data, filter_by, ret, exc, live, ncalls>>

cfgvars ==
    <<_cloud, settings, alive, unmodifiable_config, current_config, fetched,
      op, arg_changed, raised, result>>

txvars == <<tx_pc, session, before, seen>>

podvars == <<pod_pc, max_retries, given, expected_statuses, resps, pod_exc>>

vars == <<dbvars, cfgvars, txvars, podvars>>

----------------------------------------------------------------------------
(* Bounds *)

\* Calls of update_status_db begun in one behaviour.
MaxCalls == 2

\* Items in a dict passed to update or set, or persisted before the first
\* construction.
MaxItems == 2

\* The largest max_retries wait_for_pod_status is called with.
MaxRetries == 3

----------------------------------------------------------------------------
(* Values *)

\* Python's None / SQL NULL.
None == [kind |-> "NoneType", v |-> 0]

\* The ISO-8601 string of instant n, as a caller sends it.
IsoString(n) == [kind |-> "str", v |-> n]

\* A datetime object of instant n.
DateTime(n) == [kind |-> "datetime", v |-> n]

\* datetime.fromisoformat: str -> datetime.
fromisoformat(s) == DateTime(s.v)

\* A dict with the single item k: x.
Item(k, x) == [j \in {k} |-> x]

\* Python values of the settings: type(x).__name__ and the value (a bool as 0
\* or 1, a string as its number in StrText).
PyInt(n) == [kind |-> "int", v |-> n]

PyBool(b) == [kind |-> "bool", v |-> IF b THEN 1 ELSE 0]

PyStr(n) == [kind |-> "str", v |-> n]

\* The strings of the model.
StrText ==
    <<"<str(uuid.uuid4())>", "johndoe@example.org", "5", "yes", "old value">>

\* The empty dict.
EmptyDict == [k \in {} |-> None]

----------------------------------------------------------------------------
(* The variables of one component while the other one runs *)

\* No OrchestSettings object exists and the settings table is empty.
CfgIdle ==
    /\ _cloud = FALSE
    /\ settings = EmptyDict
    /\ alive = FALSE
    /\ unmodifiable_config = EmptyDict
    /\ current_config = EmptyDict
    /\ fetched = EmptyDict
    /\ op = "none"
    /\ arg_changed = FALSE
    /\ raised = "none"
    /\ result = None

----------------------------------------------------------------------------
(* update_status_db *)

\* The two concurrent writers the source names.
Writers == {"orchest-api", "celery-task"}

Statuses == {"PENDING", "STARTED", "SUCCESS", "FAILURE", "ABORTED"}

\* The end states of an entity.
EndStates == {"SUCCESS", "FAILURE", "ABORTED"}

\* The statuses for which the update parses finished_time.
FinishedTimeStatuses == {"SUCCESS", "FAILURE"}

\* (mutant) the UPDATE without its guard on the current status.
UpdatableStatuses_NoGuard == Statuses

\* The statuses a row must have for the UPDATE to touch it.
UpdatableStatuses == {"PENDING", "STARTED"}

\* (mutant) more than one row was updated.
bool_MoreThanOne(res) == res > 1

\* bool(res) of the number of rows the UPDATE matched.
bool(res) == res # 0

RowIds == {"run-1", "run-2"}

\* A freshly created entity.
NewRow(id) ==
    [uuid |-> id, project_uuid |-> "project-1", status |-> "PENDING",
     started_time |-> None, finished_time |-> None]

\* The filters callers pass: one entity, every entity of a project, no entity.
FilterBys ==
    { Item("uuid", "run-1"), Item("uuid", "run-9"),
      Item("project_uuid", "project-1") }

\* The time field a caller reports along with a status.
TimeFieldOf(s) == IF s = "STARTED" THEN "started_time" ELSE "finished_time"

\* The status_update dicts callers pass at time now: a status, alone or with
\* the time of the event as an ISO string.
StatusUpdates(now) ==
    { Item("status", s) : s \in Statuses }
    \cup { Item("status", s) @@ Item(TimeFieldOf(s), IsoString(now)) :
             s \in Statuses \ {"PENDING"} }

\* query.filter_by(**filter_by): every named column equals the given value.
Matches(row, f) == \A c \in DOMAIN f : row[c] = f[c]

\* Lines 61-66: the key the call reads and parses, "none" when it parses nothing.
ParsedKey(d) ==
    IF d["status"] = "STARTED" THEN "started_time"
    ELSE IF d["status"] \in FinishedTimeStatuses THEN "finished_time"
    ELSE "none"

\* Lines 61-66: data after the in-place parse (the key is present).
ParseTimes(d) ==
    IF ParsedKey(d) = "none" THEN d
    ELSE [k \in DOMAIN d |-> IF k = ParsedKey(d) THEN fromisoformat(d[k]) ELSE d[k]]

\* The rows the UPDATE statement touches.
Touched(f) ==
    { r \in RowIds : Matches(rows[r], f) /\ rows[r].status \in UpdatableStatuses }

\* (mutant) an update that carries no started_time clears the column.
UpdatedRow_ResetsStart(row, d) ==
    [c \in DOMAIN row |->
       IF c \in DOMAIN d THEN d[c]
       ELSE IF c = "started_time" THEN None ELSE row[c]]

\* query.update(data): the row with the columns of data overwritten.
UpdatedRow(row, d) ==
    [c \in DOMAIN row |-> IF c \in DOMAIN d THEN d[c] ELSE row[c]]

\* A call begins: lines 61-66 run, and raise KeyError when the time to parse
\* is not in the dict.
Call(w, status_update, f) ==
    /\ pc[w] # "query"
    /\ ncalls < MaxCalls
    /\ ncalls' = ncalls + 1
    /\ filter_by' = [filter_by EXCEPT ![w] = f]
    /\ live' = [live EXCEPT ![w] = Touched(f)]
    /\ ret' = [ret EXCEPT ![w] = FALSE]
    /\ IF ParsedKey(status_update) # "none"
          /\ ParsedKey(status_update) \notin DOMAIN status_update
       THEN /\ pc' = [pc EXCEPT ![w] = "raised"]
            /\ exc' = [exc EXCEPT ![w] = "KeyError"]
            /\ data' = [data EXCEPT ![w] = status_update]
       ELSE /\ pc' = [pc EXCEPT ![w] = "query"]
            /\ exc' = [exc EXCEPT ![w] = "none"]
            /\ data' = [data EXCEPT ![w] = ParseTimes(status_update)]
    /\ UNCHANGED rows
    /\ UNCHANGED <<cfgvars, txvars, podvars>>

\* (mutant) read-then-write: the rows to update are those read when the call
\* began, not those the database finds when the statement runs.
Query_ReadThenWrite(w) ==
    /\ pc[w] = "query"
    /\ rows' = [r \in RowIds |->
                  IF r \in live[w] THEN UpdatedRow(rows[r], data[w]) ELSE rows[r]]
    /\ ret' = [ret EXCEPT ![w] = bool(Cardinality(live[w]))]
    /\ pc' = [pc EXCEPT ![w] = "returned"]
    /\ UNCHANGED <<data, filter_by, exc, live, ncalls>>
    /\ UNCHANGED <<cfgvars, txvars, podvars>>

\* Lines 68-92: the UPDATE ... WHERE of the call, one atomic statement of the
\* database, and the return of bool(res).
Query(w) ==
    /\ pc[w] = "query"
    /\ rows' = [r \in RowIds |->
                  IF r \in Touched(filter_by[w])
                  THEN UpdatedRow(rows[r], data[w]) ELSE rows[r]]
    /\ ret' = [ret EXCEPT ![w] = bool(Cardinality(Touched(filter_by[w])))]
    /\ pc' = [pc EXCEPT ![w] = "returned"]
    /\ UNCHANGED <<data, filter_by, exc, live, ncalls>>
    /\ UNCHANGED <<cfgvars, txvars, podvars>>

\* No save is in progress and no other process has fetched the settings.
TxIdle ==
    /\ tx_pc = "idle"
    /\ session = EmptyDict
    /\ before = EmptyDict
    /\ seen = EmptyDict

\* wait_for_pod_status has not been called.
PodIdle ==
    /\ pod_pc = "idle"
    /\ max_retries = None
    /\ given = None
    /\ expected_statuses = {}
    /\ resps = << >>
    /\ pod_exc = "none"

\* No call of update_status_db has begun; every entity is new.
DbIdle ==
    /\ rows = [r \in RowIds |-> NewRow(r)]
    /\ pc = [w \in Writers |-> "idle"]
    /\ data = [w \in Writers |-> Item("status", "PENDING")]
    /\ filter_by = [w \in Writers |-> Item("uuid", "run-9")]
    /\ ret = [w \in Writers |-> FALSE]
    /\ exc = [w \in Writers |-> "none"]
    /\ live = [w \in Writers |-> {}]
    /\ ncalls = 0

DbInit == DbIdle /\ CfgIdle /\ TxIdle /\ PodIdle

DbNext ==
    \/ \E w \in Writers, f \in FilterBys :
         \E d \in StatusUpdates(ncalls + 1) : Call(w, d, f)
    \/ \E w \in Writers : Query(w)

SpecStatus == DbInit /\ [][DbNext]_vars

----------------------------------------------------------------------------
(* OrchestSettings *)

\* The keys of _config_values, in the order the dict iterates them.
ConfigKeys ==
    <<"MAX_JOB_RUNS_PARALLELISM", "MAX_INTERACTIVE_RUNS_PARALLELISM",
      "AUTH_ENABLED", "TELEMETRY_DISABLED", "TELEMETRY_UUID",
      "INTERCOM_USER_EMAIL">>

ConfigKeySet == { ConfigKeys[i] : i \in 1..Len(ConfigKeys) }

\* The upper end of the range the parallelism options must be in.
MaxParallelism == 25

\* OrchestSettings._config_values; condition is "range" for
\* lambda x: 0 < x <= 25 and "None" for None.
_config_values ==
    [k \in ConfigKeySet |->
       CASE k \in {"MAX_JOB_RUNS_PARALLELISM", "MAX_INTERACTIVE_RUNS_PARALLELISM"} ->
              [default |-> PyInt(1), type |-> "int",
               requires_restart |-> TRUE, condition |-> "range"]
         [] k \in {"AUTH_ENABLED", "TELEMETRY_DISABLED"} ->
              [default |-> PyBool(FALSE), type |-> "bool",
               requires_restart |-> TRUE, condition |-> "None"]
         [] k = "TELEMETRY_UUID" ->
              [default |-> PyStr(1), type |-> "str",
               requires_restart |-> TRUE, condition |-> "None"]
         [] k = "INTERCOM_USER_EMAIL" ->
              [default |-> PyStr(2), type |-> "str",
               requires_restart |-> TRUE, condition |-> "None"]]

_cloud_unmodifiable_config_opts ==
    {"TELEMETRY_UUID", "TELEMETRY_DISABLED", "AUTH_ENABLED", "INTERCOM_USER_EMAIL"}

\* The attributes of an OrchestSettings object while __init__ runs
\* _get_current_configs: those of the class.
Attributes ==
    {"_cloud", "_config_values", "_cloud_unmodifiable_config_opts",
     "__init__", "as_dict", "save", "update", "set", "__getitem__",
     "_changes_require_restart", "_validate_dict", "_get_current_configs",
     "_fetch_settings_from_db"}

\* defaults of __init__.
defaults == [k \in ConfigKeySet |-> _config_values[k].default]

\* The kinds Python orders against the int 0.
Numbers == {"int", "bool"}

\* (mutant) the upper end of the range is not in it: 0 < x < 25.
condition_ExclusiveUpper(x) ==
    IF x.kind \notin Numbers THEN "TypeError"
    ELSE IF 0 < x.v /\ x.v < MaxParallelism THEN "True" ELSE "False"

\* The condition lambda x: 0 < x <= 25 applied to x: "True", "False", or
\* "TypeError" when x is a value that Python does not order against an int.
condition(x) ==
    IF x.kind \notin Numbers THEN "TypeError"
    ELSE IF 0 < x.v /\ x.v <= MaxParallelism THEN "True" ELSE "False"

\* dict d with d[k] = x.
SetItem(d, k, x) == Item(k, x) @@ d

\* dict.update: the items of e over those of d.
DictUpdate(d, e) == e @@ d

\* self._cloud and k in self._cloud_unmodifiable_config_opts.
not_allowed_to_migrate(k) == _cloud /\ k \in _cloud_unmodifiable_config_opts

\* One iteration of the loop of _validate_dict (lines 446-481) for key k:
\* the dict after it and the exception that leaves it, or "none".
ValidateKey(d, migrate, k) ==
    IF k \notin DOMAIN d THEN [d |-> d, exc |-> "none"]
    ELSE
      LET val == _config_values[k]
          given_val == d[k]
          wrong_type == given_val.kind # val.type
          d1 == IF wrong_type THEN SetItem(d, k, val.default) ELSE d
          cond == IF val.condition = "None" THEN "True" ELSE condition(given_val)
      IN  IF wrong_type /\ (~migrate \/ not_allowed_to_migrate(k))
          THEN [d |-> d, exc |-> "TypeError"]
          ELSE IF cond = "TypeError"
          THEN [d |-> d1, exc |-> "TypeError"]
          ELSE IF cond = "False" /\ (~migrate \/ not_allowed_to_migrate(k))
          THEN [d |-> d1, exc |-> "ValueError"]
          ELSE IF cond = "False"
          THEN [d |-> SetItem(d1, k, val.default), exc |-> "none"]
          ELSE [d |-> d1, exc |-> "none"]

RECURSIVE ValidateFrom(_, _, _)
\* The loop of _validate_dict from the i-th key of _config_values on.
ValidateFrom(d, migrate, i) ==
    IF i > Len(ConfigKeys) THEN [d |-> d, exc |-> "none"]
    ELSE LET step == ValidateKey(d, migrate, ConfigKeys[i])
         IN  IF step.exc # "none" THEN step
             ELSE ValidateFrom(step.d, migrate, i + 1)

\* _validate_dict(d, migrate): d as the call leaves it and the exception
\* raised, or "none".
_validate_dict(d, migrate) == ValidateFrom(d, migrate, 1)

\* The JSON type a Python value is stored as, and the Python type a JSON
\* value is loaded as.
JsonKind(kind) ==
    CASE kind = "int" -> "number" [] kind = "bool" -> "boolean"
      [] kind = "str" -> "string" [] kind = "NoneType" -> "null"

\* (mutant) a JSON boolean is loaded as an int.
PyKind_BoolAsInt(kind) ==
    CASE kind = "number" -> "int" [] kind = "boolean" -> "int"
      [] kind = "string" -> "str" [] kind = "null" -> "NoneType"

PyKind(kind) ==
    CASE kind = "number" -> "int" [] kind = "boolean" -> "bool"
      [] kind = "string" -> "str" [] kind = "null" -> "NoneType"

\* The JSON column value {"value": x} of a row, and the x read back from it.
ValueColumn(x) == [value |-> [kind |-> JsonKind(x.kind), v |-> x.v]]

ValueOf(column) == [kind |-> PyKind(column.value.kind), v |-> column.value.v]

\* The rows dict(name=k, value={"value": v}) of the items of d.
SettingRows(d) == [k \in DOMAIN d |-> ValueColumn(d[k])]

\* _fetch_settings_from_db: name -> value["value"] of every row.
_fetch_settings_from_db == [k \in DOMAIN settings |-> ValueOf(settings[k])]

\* Lines 499-502: the exception the raise statement ends with. Building the
\* message reads self._path.
RaiseCorruptedFile ==
    IF "_path" \in Attributes THEN "CorruptedFileError" ELSE "AttributeError"

\* Lines 504-511: the unmodifiable config taken from the validated config.
UnmodifiableOf(config) ==
    IF _cloud
    THEN [k \in _cloud_unmodifiable_config_opts \cap DOMAIN config |-> config[k]]
    ELSE EmptyDict

\* (mutant) the stored layer looked up before the unmodifiable one.
Maps_StoredFirst(m0, m1) == <<m1, m0, defaults>>

\* self._values.maps of an object whose first two maps are m0 and m1.
Maps(m0, m1) == <<m0, m1, defaults>>

RECURSIVE ChainLookup(_, _, _)
\* ChainMap.__getitem__: the first map from the i-th on that holds key.
ChainLookup(maps, key, i) ==
    IF i > Len(maps) THEN [exc |-> "KeyError", val |-> None]
    ELSE IF key \in DOMAIN maps[i] THEN [exc |-> "none", val |-> maps[i][key]]
    ELSE ChainLookup(maps, key, i + 1)

\* OrchestSettings.__getitem__.
Get(key) == ChainLookup(Maps(unmodifiable_config, current_config), key, 1)

\* The keys a ChainMap iterates: those of all its maps.
ChainKeys(maps) == UNION { DOMAIN maps[i] : i \in 1..Len(maps) }

\* as_dict of an object whose first two maps are m0 and m1: dict(self._values).
AsDictOf(m0, m1) ==
    [k \in ChainKeys(Maps(m0, m1)) |-> ChainLookup(Maps(m0, m1), k, 1).val]

\* OrchestSettings.as_dict.
as_dict == AsDictOf(unmodifiable_config, current_config)

\* Lines 327-334: INSERT ... ON CONFLICT DO UPDATE of every item of d.
Upsert(table, d) == SettingRows(d) @@ table

\* (mutant) no row is deleted.
DeleteNotIn_Nothing(table, names) == table

\* Lines 336-339: DELETE of the rows whose name is not in names.
DeleteNotIn(table, names) == [k \in DOMAIN table \cap names |-> table[k]]

\* Python's == on the values of the model: numbers compare by value.
PyEq(x, y) ==
    IF x.kind \in Numbers /\ y.kind \in Numbers THEN x.v = y.v ELSE x = y

\* dict.get(k): None when k is not a key.
DictGet(d, k) == IF k \in DOMAIN d THEN d[k] ELSE None

RECURSIVE RestartFrom(_, _, _)
\* The loop of _changes_require_restart (lines 408-423) from the i-th key on.
RestartFrom(config, new, i) ==
    IF i > Len(ConfigKeys) THEN << >>
    ELSE LET k == ConfigKeys[i]
             old_val == DictGet(config, k)
             rest == RestartFrom(config, new, i + 1)
         IN  IF ~_config_values[k].requires_restart THEN rest
             ELSE IF _cloud /\ k \in _cloud_unmodifiable_config_opts THEN rest
             ELSE IF DictGet(new, k) # None /\ ~PyEq(new[k], old_val)
             THEN <<k>> \o rest
             ELSE rest

RECURSIVE RestartFrom_NoCloudSkip(_, _, _)
\* (mutant) the loop without the skip of lines 412-414.
RestartFrom_NoCloudSkip(config, new, i) ==
    IF i > Len(ConfigKeys) THEN << >>
    ELSE LET k == ConfigKeys[i]
             old_val == DictGet(config, k)
             rest == RestartFrom_NoCloudSkip(config, new, i + 1)
         IN  IF ~_config_values[k].requires_restart THEN rest
             ELSE IF DictGet(new, k) # None /\ ~PyEq(new[k], old_val)
             THEN <<k>> \o rest
             ELSE rest

\* (mutant) options of the unmodifiable ones are reported in cloud mode too.
_changes_require_restart_NoCloudSkip(config, new) ==
    RestartFrom_NoCloudSkip(config, new, 1)

\* _changes_require_restart(flask_app, new).
_changes_require_restart(config, new) == RestartFrom(config, new, 1)

\* A list returned by a call.
PyList(seq) == [kind |-> "list", v |-> seq]

\* OrchestSettings(): __init__ and _get_current_configs. The settings are
\* fetched and validated with migrate=True; an exception of the validator is
\* answered by the raise of lines 499-502 and no object is made.
Construct ==
    LET current == _fetch_settings_from_db
        checked == _validate_dict(current, TRUE)
    IN  /\ tx_pc = "idle"
        /\ op' = "__init__"
        /\ fetched' = current
        /\ arg_changed' = (checked.d # current)
        /\ result' = None
        /\ IF checked.exc # "none"
           THEN /\ raised' = RaiseCorruptedFile
                /\ alive' = FALSE
                /\ unmodifiable_config' = EmptyDict
                /\ current_config' = EmptyDict
           ELSE /\ raised' = "none"
                /\ alive' = TRUE
                /\ unmodifiable_config' = UnmodifiableOf(checked.d)
                /\ current_config' = checked.d
        /\ UNCHANGED <<_cloud, settings>>
        /\ UNCHANGED <<dbvars, txvars, podvars>>

\* (mutant) self._values.update(d): a ChainMap writes to its first map.
update_FirstMap(d) ==
    LET checked == _validate_dict(d, FALSE)
    IN  [raised |-> checked.exc, d |-> checked.d,
         maps0 |-> IF checked.exc = "none"
                   THEN DictUpdate(unmodifiable_config, checked.d)
                   ELSE unmodifiable_config,
         maps1 |-> current_config]

\* (mutant) the dict is merged before it is validated.
update_MergeFirst(d) ==
    LET checked == _validate_dict(d, FALSE)
    IN  [raised |-> checked.exc, d |-> checked.d,
         maps0 |-> unmodifiable_config,
         maps1 |-> DictUpdate(current_config, d)]

\* update(d), lines 362-370: validate, then dict.update on maps[1]; the
\* exception of the validator is raised again. The exception raised, d and
\* the first two maps as the call leaves them.
update(d) ==
    LET checked == _validate_dict(d, FALSE)
    IN  [raised |-> checked.exc, d |-> checked.d,
         maps0 |-> unmodifiable_config,
         maps1 |-> IF checked.exc = "none"
                   THEN DictUpdate(current_config, checked.d)
                   ELSE current_config]

\* (mutant) maps[1] = d without the validation.
set_Unchecked(d) ==
    [raised |-> "none", d |-> d, maps0 |-> unmodifiable_config, maps1 |-> d]

\* set(d), lines 383-391: validate, then maps[1] = d.
set(d) ==
    LET checked == _validate_dict(d, FALSE)
    IN  [raised |-> checked.exc, d |-> checked.d,
         maps0 |-> unmodifiable_config,
         maps1 |-> IF checked.exc = "none" THEN checked.d ELSE current_config]

\* A call of update(d) on the object.
Update(d) ==
    LET out == update(d)
    IN  /\ alive /\ tx_pc = "idle"
        /\ op' = "update"
        /\ arg_changed' = (out.d # d)
        /\ raised' = out.raised
        /\ result' = None
        /\ unmodifiable_config' = out.maps0
        /\ current_config' = out.maps1
        /\ UNCHANGED <<_cloud, settings, alive, fetched>>
        /\ UNCHANGED <<dbvars, txvars, podvars>>

\* (mutant) a set that is accepted writes the new stored layer to the table.
Set_AndPersist(d) ==
    LET out == set(d)
    IN  /\ alive /\ tx_pc = "idle"
        /\ op' = "set"
        /\ arg_changed' = (out.d # d)
        /\ raised' = out.raised
        /\ result' = None
        /\ unmodifiable_config' = out.maps0
        /\ current_config' = out.maps1
        /\ settings' = IF out.raised = "none" THEN SettingRows(out.maps1)
                       ELSE settings
        /\ UNCHANGED <<_cloud, alive, fetched>>
        /\ UNCHANGED <<dbvars, txvars, podvars>>

\* A call of set(d) on the object.
Set(d) ==
    LET out == set(d)
    IN  /\ alive /\ tx_pc = "idle"
        /\ op' = "set"
        /\ arg_changed' = (out.d # d)
        /\ raised' = out.raised
        /\ result' = None
        /\ unmodifiable_config' = out.maps0
        /\ current_config' = out.maps1
        /\ UNCHANGED <<_cloud, settings, alive, fetched>>
        /\ UNCHANGED <<dbvars, txvars, podvars>>

\* save(flask_app): upsert and delete in one transaction, commit, and the
\* restart report when a flask app is given (app.config = config).
Save(has_app, config) ==
    LET settings_as_dict == as_dict
    IN  /\ alive /\ tx_pc = "idle"
        /\ op' = "save"
        /\ arg_changed' = FALSE
        /\ raised' = "none"
        /\ settings' =
              DeleteNotIn(Upsert(settings, settings_as_dict), DOMAIN settings_as_dict)
        /\ result' =
              IF has_app
              THEN PyList(_changes_require_restart(config, settings_as_dict))
              ELSE None
        /\ UNCHANGED <<_cloud, alive, unmodifiable_config, current_config, fetched>>
        /\ UNCHANGED <<dbvars, txvars, podvars>>

\* (mutant) the upsert is committed by itself, before the delete.
SaveUpsert_Autocommit ==
    /\ alive /\ tx_pc = "idle"
    /\ tx_pc' = "upserted"
    /\ before' = settings
    /\ settings' = Upsert(settings, as_dict)
    /\ session' = settings'
    /\ seen' = EmptyDict
    /\ UNCHANGED <<_cloud, alive, unmodifiable_config, current_config,
                   fetched, op, arg_changed, raised, result>>
    /\ UNCHANGED <<dbvars, podvars>>

\* save, lines 325-334: the upsert is executed in the transaction of
\* db.session; nothing is committed yet. What was fetched during an earlier
\* save is forgotten.
SaveUpsert ==
    /\ alive /\ tx_pc = "idle"
    /\ tx_pc' = "upserted"
    /\ before' = settings
    /\ session' = Upsert(settings, as_dict)
    /\ seen' = EmptyDict
    /\ UNCHANGED cfgvars
    /\ UNCHANGED <<dbvars, podvars>>

\* save, lines 336-339: the delete is executed in the same transaction.
SaveDelete ==
    /\ tx_pc = "upserted"
    /\ tx_pc' = "deleted"
    /\ session' = DeleteNotIn(session, DOMAIN as_dict)
    /\ UNCHANGED <<cfgvars, before, seen>>
    /\ UNCHANGED <<dbvars, podvars>>

\* save, lines 336-339: the delete raises; save is left before line 341 and
\* the transaction is never committed.
SaveDeleteFails ==
    /\ tx_pc = "upserted"
    /\ tx_pc' = "idle"
    /\ session' = EmptyDict
    /\ before' = EmptyDict
    /\ op' = "save"
    /\ arg_changed' = FALSE
    /\ raised' = "SQLAlchemyError"
    /\ result' = None
    /\ UNCHANGED <<_cloud, settings, alive, unmodifiable_config,
                   current_config, fetched, seen>>
    /\ UNCHANGED <<dbvars, podvars>>

\* save, lines 341-344: db.session.commit() makes the rows of the
\* transaction the rows of the table; no flask app is given.
SaveCommit ==
    /\ tx_pc = "deleted"
    /\ tx_pc' = "idle"
    /\ settings' = session
    /\ session' = EmptyDict
    /\ before' = EmptyDict
    /\ op' = "save"
    /\ arg_changed' = FALSE
    /\ raised' = "none"
    /\ result' = None
    /\ UNCHANGED <<_cloud, alive, unmodifiable_config, current_config,
                   fetched, seen>>
    /\ UNCHANGED <<dbvars, podvars>>

\* _fetch_settings_from_db in another process while the save is in progress:
\* it reads the committed rows.
Fetch ==
    /\ tx_pc # "idle"
    /\ seen' = _fetch_settings_from_db
    /\ UNCHANGED <<cfgvars, tx_pc, session, before>>
    /\ UNCHANGED <<dbvars, podvars>>

\* The keys of the dicts the callers pass and of the rows persisted at the
\* start: an option with a condition, an option of the unmodifiable ones, and
\* a name that is no option.
InputKeys == {"MAX_JOB_RUNS_PARALLELISM", "AUTH_ENABLED", "OLD_KEY"}

\* The values tried for a key.
InputValues(k) ==
    CASE k = "MAX_JOB_RUNS_PARALLELISM" ->
           {PyInt(0), PyInt(MaxParallelism), PyStr(3)}
      [] k = "AUTH_ENABLED" -> {PyBool(TRUE), PyBool(FALSE), PyStr(4)}
      [] k = "OLD_KEY" -> {PyStr(5)}

AllInputValues == UNION { InputValues(k) : k \in InputKeys }

\* The dicts of at most MaxItems items over the input keys.
Dicts ==
    UNION { { d \in [S -> AllInputValues] : \A k \in S : d[k] \in InputValues(k) } :
            S \in { T \in SUBSET InputKeys : Cardinality(T) <= MaxItems } }

\* The config of the running flask app given to save: the options it was
\* started with, each of its declared type, and either all of them (the
\* defaults overridden by a few) or only a few.
FlaskConfigs ==
    LET started == { d \in Dicts : \A k \in DOMAIN d :
                        k \in ConfigKeySet /\ d[k].kind = _config_values[k].type
                                          /\ d[k] # PyInt(0) }
    IN  started \cup { d @@ defaults : d \in started }

\* The process starts in either mode over any persisted settings.
CfgStart ==
    /\ _cloud \in BOOLEAN
    /\ settings \in { SettingRows(d) : d \in Dicts }
    /\ alive = FALSE
    /\ unmodifiable_config = EmptyDict
    /\ current_config = EmptyDict
    /\ fetched = EmptyDict
    /\ op = "none"
    /\ arg_changed = FALSE
    /\ raised = "none"
    /\ result = None

CfgNext ==
    \/ Construct
    \/ \E d \in Dicts : Update(d)
    \/ \E d \in Dicts : Set(d)
    \/ Save(FALSE, EmptyDict)
    \/ \E config \in FlaskConfigs : Save(TRUE, config)

CfgInit == CfgStart /\ DbIdle /\ TxIdle /\ PodIdle

SpecSettings == CfgInit /\ [][CfgNext]_vars

\* The save of one process, statement by statement, next to the fetches of
\* another process.
SaveInit == CfgStart /\ DbIdle /\ TxIdle /\ PodIdle

SaveNext ==
    \/ Construct
    \/ \E d \in Dicts : Set(d)
    \/ SaveUpsert
    \/ SaveDelete
    \/ SaveDeleteFails
    \/ SaveCommit
    \/ Fetch

SpecSave == SaveInit /\ [][SaveNext]_vars

----------------------------------------------------------------------------
(* wait_for_pod_status *)

\* The values of pod.status.phase (docstring, lines 163-165).
Phases == {"Pending", "Running", "Succeeded", "Failed", "Unknown"}

\* The status of an ApiException that says the pod does not exist, and
\* another one.
NotFound == 404

ServerError == 500

\* What read_namespaced_pod answers: a pod in some phase, or an ApiException
\* with a status.
Responses ==
    { [kind |-> "pod", phase |-> ph, status |-> 0] : ph \in Phases }
    \cup { [kind |-> "ApiException", phase |-> "", status |-> st] :
             st \in {NotFound, ServerError} }

\* (mutant) the loop is entered once more: max_retries >= 0.
LoopCondition_OnceMore(m) == m = None \/ m.v >= 0

\* Line 174: max_retries is None or max_retries > 0.
LoopCondition(m) == m = None \/ m.v > 0

\* Lines 175-186, one iteration of the loop. None - 1 raises TypeError;
\* otherwise the pod is read: an ApiException other than 404 is raised
\* again, an expected phase breaks the loop, anything else sleeps and goes
\* on.
Poll ==
    /\ pod_pc = "loop"
    /\ LoopCondition(max_retries)
    /\ IF max_retries = None
       THEN /\ pod_pc' = "raised"
            /\ pod_exc' = "TypeError"
            /\ UNCHANGED <<max_retries, resps>>
       ELSE /\ max_retries' = PyInt(max_retries.v - 1)
            /\ \E resp \in Responses :
                 /\ resps' = Append(resps, resp)
                 /\ IF resp.kind = "ApiException"
                    THEN IF resp.status # NotFound
                         THEN pod_pc' = "raised" /\ pod_exc' = "ApiException"
                         ELSE pod_pc' = "loop" /\ pod_exc' = "none"
                    ELSE IF resp.phase \in expected_statuses
                         THEN pod_pc' = "returned" /\ pod_exc' = "none"
                         ELSE pod_pc' = "loop" /\ pod_exc' = "none"
    /\ UNCHANGED <<given, expected_statuses>>
    /\ UNCHANGED <<dbvars, cfgvars, txvars>>

\* Lines 187-188, the else of the while: the condition is false and the loop
\* was not left by break.
Exhausted ==
    /\ pod_pc = "loop"
    /\ ~LoopCondition(max_retries)
    /\ pod_pc' = "raised"
    /\ pod_exc' = "PodNeverReachedExpectedStatusError"
    /\ UNCHANGED <<max_retries, given, expected_statuses, resps>>
    /\ UNCHANGED <<dbvars, cfgvars, txvars>>

\* wait_for_pod_status is entered with max_retries None or a number up to
\* MaxRetries, and with any expected_statuses.
PodStart ==
    /\ pod_pc = "loop"
    /\ given \in {None} \cup { PyInt(n) : n \in 0..MaxRetries }
    /\ max_retries = given
    /\ expected_statuses \in SUBSET Phases
    /\ resps = << >>
    /\ pod_exc = "none"

PodInit == PodStart /\ DbIdle /\ CfgIdle /\ TxIdle

PodNext == Poll \/ Exhausted

\* The function runs to its end: an iteration that can be taken is taken
\* (the read answers or raises, the sleeps end).
SpecPod == PodInit /\ [][PodNext]_vars /\ WF_vars(PodNext)

----------------------------------------------------------------------------
(* Claims about update_status_db *)

\* C1: a row whose status is SUCCESS, FAILURE or ABORTED is never changed
\* again: no step changes its status, started_time or finished_time.
C1_TerminalWriteOnce ==
    [][\A r \in RowIds : rows[r].status \in EndStates => rows'[r] = rows[r]]_vars

\* An update with another status was applied to a row already in an end state,
\* returned false and left the row as it was.
C1_Witness ==
    \E w \in Writers, r \in RowIds :
        /\ pc[w] = "returned" /\ ret[w] = FALSE
        /\ Matches(rows[r], filter_by[w])
        /\ r \notin live[w]
        /\ rows[r].status = "SUCCESS"
        /\ data[w]["status"] = "FAILURE"
        /\ "finished_time" \in DOMAIN data[w]
        /\ rows[r].finished_time # data[w]["finished_time"]

\* The rows of the filter two calls share that were in PENDING or STARTED
\* when each of the two calls began.
Contended(w1, w2) ==
    IF filter_by[w1] = filter_by[w2] THEN live[w1] \cap live[w2] ELSE {}

\* C2: of two calls that set an end state on the same entity while it is
\* PENDING or STARTED, exactly one returns true and the stored status is the
\* one that call wrote.
C2_ExactlyOneWinner ==
    \A w1, w2 \in Writers :
        ( /\ w1 # w2
          /\ pc[w1] = "returned" /\ pc[w2] = "returned"
          /\ data[w1]["status"] \in EndStates /\ data[w2]["status"] \in EndStates
          /\ Contended(w1, w2) # {} )
        => /\ ret[w1] # ret[w2]
           /\ \A r \in Contended(w1, w2) :
                 rows[r].status = IF ret[w1] THEN data[w1]["status"]
                                  ELSE data[w2]["status"]

\* Both writers raced on run-1, one with SUCCESS and one with FAILURE, and
\* both calls have returned.
C2_Witness ==
    \E w1, w2 \in Writers :
        /\ w1 # w2
        /\ pc[w1] = "returned" /\ pc[w2] = "returned"
        /\ data[w1]["status"] = "SUCCESS" /\ data[w2]["status"] = "FAILURE"
        /\ filter_by[w1] = Item("uuid", "run-1")
        /\ Contended(w1, w2) = {"run-1"}
        /\ ret[w2] /\ ~ret[w1]
        /\ rows["run-1"].status = "FAILURE"

\* The rows a filter matches that are in PENDING or STARTED.
MatchedOpen(f) ==
    { r \in RowIds : Matches(rows[r], f) /\ rows[r].status \in {"PENDING", "STARTED"} }

Rank(status) ==
    CASE status = "PENDING" -> 0 [] status = "STARTED" -> 1 [] OTHER -> 2

\* C18 as stated: the status of an entity only moves forward along
\* PENDING -> STARTED -> end state, never from STARTED back to PENDING, and
\* a started_time that was recorded is not overwritten.
C18_ForwardOnly ==
    [][\A r \in RowIds :
         /\ Rank(rows'[r].status) >= Rank(rows[r].status)
         /\ rows[r].started_time # None =>
               rows'[r].started_time = rows[r].started_time]_vars

\* C18, amended: a row changes only while its status is PENDING or STARTED
\* and only by the UPDATE of a call, which gives it the status that call was
\* given, PENDING after STARTED included; its started_time changes only to
\* the started_time a call carries, so it is frozen once the entity is in an
\* end state but not before.
C18_OpenRowsTakeAnyStatus ==
    [][\A r \in RowIds :
         rows'[r] # rows[r] =>
           /\ rows[r].status \in {"PENDING", "STARTED"}
           /\ \E w \in Writers :
                 /\ pc[w] = "query" /\ pc'[w] = "returned" /\ ret'[w]
                 /\ rows'[r].status = data[w]["status"]
                 /\ rows'[r].started_time # rows[r].started_time =>
                       /\ "started_time" \in DOMAIN data[w]
                       /\ rows'[r].started_time = data[w]["started_time"]]_vars

\* run-1 was STARTED, with its started_time recorded, and an update with
\* status PENDING has moved it back to PENDING.
C18_Witness ==
    /\ rows["run-1"].status = "PENDING"
    /\ rows["run-1"].started_time = DateTime(1)
    /\ \E w \in Writers :
          /\ pc[w] = "returned" /\ ret[w]
          /\ data[w] = Item("status", "PENDING")

----------------------------------------------------------------------------
(* Claims about OrchestSettings *)

\* What a lookup that succeeds with x returns.
Found(x) == [exc |-> "none", val |-> x]

\* C5: get(key) is the unmodifiable value if the key has one, else the stored
\* value if it has one, else the default of _config_values; as_dict holds the
\* same value for every key, and get never fails for a key of _config_values.
C5_Precedence ==
    alive =>
      \A k \in ConfigKeySet \cup InputKeys :
        /\ k \in DOMAIN unmodifiable_config =>
              Get(k) = Found(unmodifiable_config[k])
        /\ k \notin DOMAIN unmodifiable_config /\ k \in DOMAIN current_config =>
              Get(k) = Found(current_config[k])
        /\ k \notin DOMAIN unmodifiable_config /\ k \notin DOMAIN current_config
              /\ k \in ConfigKeySet =>
              Get(k) = Found(_config_values[k].default)
        /\ k \in ConfigKeySet => Get(k).exc = "none"
        /\ k \in DOMAIN as_dict <=> Get(k).exc = "none"
        /\ k \in DOMAIN as_dict => as_dict[k] = Get(k).val

\* After an accepted update, one key is in both the unmodifiable and the
\* stored layer with different values, another one (not its default) only in
\* the stored layer.
C5_Witness ==
    /\ alive /\ op = "update" /\ raised = "none"
    /\ "AUTH_ENABLED" \in DOMAIN unmodifiable_config
    /\ "AUTH_ENABLED" \in DOMAIN current_config
    /\ unmodifiable_config["AUTH_ENABLED"] # current_config["AUTH_ENABLED"]
    /\ "MAX_JOB_RUNS_PARALLELISM" \in DOMAIN current_config
    /\ current_config["MAX_JOB_RUNS_PARALLELISM"] = PyInt(MaxParallelism)
    /\ "MAX_INTERACTIVE_RUNS_PARALLELISM" \notin DOMAIN current_config

\* C6: in cloud mode every unmodifiable option that was persisted when the
\* object was constructed keeps that value in get and as_dict, whatever is
\* passed to update and set afterwards.
C6_LockedOverride ==
    (_cloud /\ alive) =>
      \A k \in _cloud_unmodifiable_config_opts \cap DOMAIN fetched :
        /\ Get(k) = Found(fetched[k])
        /\ k \in DOMAIN as_dict /\ as_dict[k] = fetched[k]

\* In cloud mode an update with another valid value for a locked key was
\* accepted.
C6_Witness ==
    /\ _cloud /\ alive /\ op = "update" /\ raised = "none"
    /\ "AUTH_ENABLED" \in DOMAIN fetched
    /\ fetched["AUTH_ENABLED"] = PyBool(TRUE)
    /\ "AUTH_ENABLED" \in DOMAIN current_config
    /\ current_config["AUTH_ENABLED"] = PyBool(FALSE)

\* The value of key k a construction over the persisted map m resolves.
ValueAtInit(m, k) == IF k \in DOMAIN m THEN m[k] ELSE _config_values[k].default

\* C7: in cloud mode no update, set or save changes the value get returns for
\* an option of _cloud_unmodifiable_config_opts, nor the value persisted for
\* it (the claim as stated; an option that was not persisted at construction
\* is not in the unmodifiable layer and can be updated).
C7_CloudOptsNeverChange ==
    (_cloud /\ alive) =>
      \A k \in _cloud_unmodifiable_config_opts :
        /\ Get(k) = Found(ValueAtInit(fetched, k))
        /\ ValueAtInit(_fetch_settings_from_db, k) = ValueAtInit(fetched, k)

\* The value x is not acceptable for option k: wrong type, or outside of
\* the range [1, 25] for an option that has the range condition.
Invalid(k, x) ==
    \/ x.kind # _config_values[k].type
    \/ /\ _config_values[k].condition = "range"
       /\ ~(1 <= x.v /\ x.v <= 25)

WrongType(d) ==
    { k \in DOMAIN d \cap ConfigKeySet : d[k].kind # _config_values[k].type }

InvalidKeys(d) == { k \in DOMAIN d \cap ConfigKeySet : Invalid(k, d[k]) }

\* The outcome out of a call with d rejects it as a whole.
Rejected(out, d) ==
    /\ out.raised \in {"TypeError", "ValueError"}
    /\ InvalidKeys(d) \subseteq WrongType(d) => out.raised = "TypeError"
    /\ WrongType(d) = {} => out.raised = "ValueError"
    /\ out.maps1 = current_config
    /\ out.maps0 = unmodifiable_config
    /\ out.d = d

\* The outcome out of a call with d accepts it.
Accepted(out, d) ==
    /\ out.raised = "none"
    /\ out.d = d
    /\ \A k \in DOMAIN d : k \in DOMAIN out.maps1 /\ out.maps1[k] = d[k]

\* C8: in every state of the object, update(d) and set(d) with a d that has
\* an invalid value for an option raise TypeError or ValueError and change
\* neither layer nor d; a d whose options are all valid is accepted.
C8_RejectionAllOrNothing ==
    alive =>
      \A d \in Dicts :
        IF InvalidKeys(d) # {}
        THEN Rejected(update(d), d) /\ Rejected(set(d), d)
        ELSE Accepted(update(d), d) /\ Accepted(set(d), d)

\* A set with a value outside of the range was rejected with ValueError and
\* the value an earlier call had stored is still there.
C8_Witness ==
    /\ alive /\ op = "set" /\ raised = "ValueError"
    /\ ~arg_changed
    /\ "MAX_JOB_RUNS_PARALLELISM" \in DOMAIN current_config
    /\ current_config["MAX_JOB_RUNS_PARALLELISM"] = PyInt(MaxParallelism)
    /\ "MAX_JOB_RUNS_PARALLELISM" \notin DOMAIN fetched

\* C9: outside cloud mode the construction ends without an error over any
\* persisted map; get is the default for every option whose persisted value
\* was invalid and the persisted value for every other persisted option (the
\* claim as stated; the condition of an int option raises on a str).
C9_BootMigrates ==
    (~_cloud /\ op = "__init__") =>
      /\ raised = "none" /\ alive
      /\ \A k \in ConfigKeySet :
           Get(k) = Found(IF k \in DOMAIN fetched /\ ~Invalid(k, fetched[k])
                          THEN fetched[k] ELSE _config_values[k].default)

\* C10: in cloud mode a construction over a persisted value of the wrong
\* type for an unmodifiable option ends with CorruptedFileError and no object
\* (the claim as stated; the raise statement fails on self._path).
C10_LockedNotHealed ==
    ( /\ _cloud /\ op = "__init__"
      /\ \E k \in _cloud_unmodifiable_config_opts \cap DOMAIN fetched :
            fetched[k].kind # _config_values[k].type )
    => raised = "CorruptedFileError" /\ ~alive

\* The options a save must report against the running config: those that
\* require a restart, are not unmodifiable in cloud mode, and whose value
\* differs from the running one, in the order of _config_values.
RestartExpected(config) ==
    LET Differs(k) ==
          /\ _config_values[k].requires_restart
          /\ ~(_cloud /\ k \in _cloud_unmodifiable_config_opts)
          /\ as_dict[k] # DictGet(config, k)
    IN  SelectSeq(ConfigKeys, Differs)

\* C11: save(flask_app) returns, in the order of _config_values, exactly the
\* options that require a restart, are not unmodifiable in cloud mode and
\* whose value differs from the one of the running config; the empty list
\* when none differs; and None when no flask app is given.
C11_RestartReport ==
    alive =>
      /\ \A config \in FlaskConfigs :
            _changes_require_restart(config, as_dict) = RestartExpected(config)
      /\ op = "save" =>
            \/ result = None
            \/ /\ result.kind = "list"
               /\ \E config \in FlaskConfigs : result.v = RestartExpected(config)

\* In cloud mode a save given a flask app reported one option, which is not
\* of the unmodifiable ones, out of an effective map that is not the default.
C11_Witness ==
    /\ _cloud /\ alive /\ op = "save"
    /\ result.kind = "list"
    /\ result.v = <<"MAX_JOB_RUNS_PARALLELISM">>
    /\ as_dict["AUTH_ENABLED"] = PyBool(TRUE)
    /\ as_dict["MAX_JOB_RUNS_PARALLELISM"] = PyInt(MaxParallelism)

\* C12: after a save the rows of the store are exactly the items of as_dict
\* at the call: every item is stored under its name and reads back as it
\* was, and every row stored before under another name is gone.
C12_StoreIsEffectiveMap ==
    (alive /\ op = "save") =>
      /\ DOMAIN settings = DOMAIN as_dict
      /\ \A k \in DOMAIN as_dict : settings[k] = ValueColumn(as_dict[k])
      /\ _fetch_settings_from_db = as_dict

\* OLD_KEY was persisted when the object was constructed, a set dropped it
\* from the stored layer, and the save deleted its row and stored a new
\* value of an option.
C12_Witness ==
    /\ alive /\ op = "save"
    /\ "OLD_KEY" \in DOMAIN fetched
    /\ "OLD_KEY" \notin DOMAIN settings
    /\ "MAX_JOB_RUNS_PARALLELISM" \notin DOMAIN fetched
    /\ settings["MAX_JOB_RUNS_PARALLELISM"] = ValueColumn(PyInt(MaxParallelism))

\* The values a fetch returns from the rows of table.
Fetched(table) == [k \in DOMAIN table |-> ValueOf(table[k])]

\* C13: the committed rows change only in the commit of a save, and then to
\* the rows after both the upsert and the delete; a fetch of another process
\* during a save returns the rows as they were before it; a save whose
\* delete fails ends with the rows as they were before it.
C13_SaveAtomic ==
    [][ /\ settings' # settings =>
              /\ tx_pc = "deleted" /\ tx_pc' = "idle"
              /\ settings' = SettingRows(as_dict)
        /\ (tx_pc # "idle" /\ seen' # seen) =>
              /\ seen' = Fetched(before)
              /\ tx_pc = "upserted" /\ before # Upsert(before, as_dict) =>
                    seen' # Fetched(session)
        /\ (tx_pc = "upserted" /\ tx_pc' = "idle") =>
              /\ raised' # "none"
              /\ settings' = before ]_vars

\* Another process fetched the settings between the upsert and the commit
\* of a save that stores a new option and deletes OLD_KEY: it got the rows
\* from before the save, and the save has committed since.
C13_Witness ==
    /\ tx_pc = "idle" /\ op = "save" /\ raised = "none"
    /\ "OLD_KEY" \in DOMAIN seen
    /\ "MAX_JOB_RUNS_PARALLELISM" \notin DOMAIN seen
    /\ "OLD_KEY" \notin DOMAIN settings
    /\ "MAX_JOB_RUNS_PARALLELISM" \in DOMAIN settings

\* The stored layer after d is merged into it: the items of d, and the
\* items under the other keys as they were.
Merged(d) ==
    [k \in DOMAIN current_config \cup DOMAIN d |->
       IF k \in DOMAIN d THEN d[k] ELSE current_config[k]]

\* C14: an accepted update(d) merges d into the stored layer and leaves its
\* other keys as they were, an accepted set(d) makes d the stored layer;
\* no update or set, accepted or rejected, changes the persisted rows, which
\* change in save only.
C14_UpdateSetNeverPersist ==
    /\ [](alive =>
            \A d \in Dicts :
              /\ update(d).raised = "none" => update(d).maps1 = Merged(d)
              /\ set(d).raised = "none" => set(d).maps1 = d
              /\ update(d).maps0 = unmodifiable_config
              /\ set(d).maps0 = unmodifiable_config)
    /\ [][ /\ op' \in {"update", "set"} => settings' = settings
           /\ settings' # settings => op' = "save" ]_vars

\* A set was accepted that dropped OLD_KEY from the stored layer and gave
\* an option a new value; the persisted rows are still those the object was
\* constructed from.
C14_Witness ==
    /\ alive /\ op = "set" /\ raised = "none"
    /\ "OLD_KEY" \in DOMAIN fetched
    /\ "OLD_KEY" \notin DOMAIN current_config
    /\ "MAX_JOB_RUNS_PARALLELISM" \in DOMAIN current_config
    /\ "MAX_JOB_RUNS_PARALLELISM" \notin DOMAIN fetched
    /\ _fetch_settings_from_db = fetched

\* C15: for a dict in which every option present has its declared type and
\* satisfies its condition, _validate_dict does the same with migrate=True
\* as with migrate=False, in either mode: it raises nothing and leaves the
\* dict as it was.
C15_ValidMapMigrateNeutral ==
    \A d \in Dicts :
      InvalidKeys(d) = {} =>
        /\ _validate_dict(d, TRUE) = _validate_dict(d, FALSE)
        /\ _validate_dict(d, TRUE).exc = "none"
        /\ _validate_dict(d, TRUE).d = d

\* In cloud mode an object was constructed (migrate=True) over a valid
\* persisted map with the upper end of the range and an unmodifiable option,
\* and an update (migrate=False) with a valid dict was accepted.
C15_Witness ==
    /\ _cloud /\ alive /\ op = "update" /\ raised = "none" /\ ~arg_changed
    /\ DOMAIN fetched = {"MAX_JOB_RUNS_PARALLELISM", "AUTH_ENABLED"}
    /\ fetched["MAX_JOB_RUNS_PARALLELISM"] = PyInt(MaxParallelism)
    /\ fetched["AUTH_ENABLED"] = PyBool(TRUE)
    /\ current_config = fetched

\* C19: whenever an object exists, whatever update and set calls were
\* accepted or rejected, as_dict has for every option a value of the
\* declared type that satisfies the condition; and the rows a save leaves
\* hold such a value for every option.
C19_EffectiveValuesValid ==
    alive =>
      /\ \A k \in ConfigKeySet :
            k \in DOMAIN as_dict /\ ~Invalid(k, as_dict[k])
      /\ op = "save" =>
            \A k \in ConfigKeySet :
               k \in DOMAIN settings /\ ~Invalid(k, ValueOf(settings[k]))

\* Outside cloud mode the object was constructed over a persisted value
\* outside of the range, and the save has stored the default in its place.
C19_Witness ==
    /\ ~_cloud /\ alive /\ op = "save"
    /\ "MAX_JOB_RUNS_PARALLELISM" \in DOMAIN fetched
    /\ fetched["MAX_JOB_RUNS_PARALLELISM"] = PyInt(0)
    /\ current_config = Item("MAX_JOB_RUNS_PARALLELISM", PyInt(1))
    /\ settings["MAX_JOB_RUNS_PARALLELISM"] = ValueColumn(PyInt(1))

\* C20: an object constructed right after a save, from the rows the save
\* committed, is constructed without an error and without migrating a value,
\* and its as_dict is the as_dict of the object that saved; a save by the
\* new object, or a second save by the old one, leaves the rows as they are.
C20_SaveLoadRoundTrip ==
    [][ /\ (op = "save" /\ raised = "none" /\ op' = "__init__") =>
              /\ raised' = "none" /\ alive' /\ ~arg_changed'
              /\ fetched' = as_dict
              /\ as_dict' = as_dict
        /\ (op = "__init__" /\ alive /\ fetched = as_dict /\ op' = "save") =>
              settings' = settings
        /\ (op = "save" /\ raised = "none" /\ op' = "save") =>
              settings' = settings ]_vars

\* In cloud mode an object was constructed from the rows of a save that
\* stored every option, one of them unmodifiable and not at its default,
\* and the new object has saved in turn.
C20_Witness ==
    /\ _cloud /\ alive /\ op = "save"
    /\ DOMAIN fetched = ConfigKeySet
    /\ fetched["AUTH_ENABLED"] = PyBool(TRUE)
    /\ fetched["MAX_JOB_RUNS_PARALLELISM"] = PyInt(MaxParallelism)
    /\ unmodifiable_config["AUTH_ENABLED"] = PyBool(TRUE)
    /\ _fetch_settings_from_db = fetched

----------------------------------------------------------------------------
(* Claims about wait_for_pod_status *)

\* C16: called with max_retries None, wait_for_pod_status never ends with
\* an exception of its own: it polls until the phase is an expected one (the
\* claim as stated; the first iteration computes None - 1).
C16_NonePollsForever ==
    given = None => pod_exc \notin {"TypeError", "PodNeverReachedExpectedStatusError"}

\* The answer resp is a pod in one of the expected statuses.
IsExpected(resp) == resp.kind = "pod" /\ resp.phase \in expected_statuses

\* The answer resp is an ApiException other than "not found".
IsFatal(resp) == resp.kind = "ApiException" /\ resp.status # 404

\* The first n polls all ended without an expected status and without an
\* error that is raised again.
AllInVain(n) == \A i \in 1..n : ~IsExpected(resps[i]) /\ ~IsFatal(resps[i])

\* The call has ended.
PodDone == pod_pc \in {"returned", "raised"}

\* What holds of a call with an integer max_retries at every moment.
BoundedPolling ==
    LET n == given.v
        polls == Len(resps)
    IN  /\ polls <= n
        /\ AllInVain(polls - 1)
        /\ pod_pc = "returned" <=> (polls > 0 /\ IsExpected(resps[polls]))
        /\ pod_exc = "ApiException" <=> (polls > 0 /\ IsFatal(resps[polls]))
        /\ pod_exc = "PodNeverReachedExpectedStatusError" =>
              polls = n /\ AllInVain(n)
        /\ (polls = n /\ AllInVain(n)) =>
              \/ pod_exc = "PodNeverReachedExpectedStatusError"
              \/ pod_pc = "loop" /\ max_retries = PyInt(0)
        /\ pod_pc = "raised" <=>
              pod_exc \in {"ApiException", "PodNeverReachedExpectedStatusError"}
        /\ (pod_pc = "loop" /\ polls < n) => max_retries.v > 0

\* C17: called with an integer max_retries = n >= 0, wait_for_pod_status
\* polls at most n times; it returns at the first poll that finds an
\* expected phase, goes on after a 404, raises any other ApiException at
\* once, raises PodNeverReachedExpectedStatusError exactly when all n polls
\* were in vain (without polling when n = 0), and it always ends.
C17_BoundedPolling ==
    /\ [](given.kind = "int" => BoundedPolling)
    /\ (given.kind = "int") ~> PodDone

\* Two polls, one answered "not found" and one with a phase that is not
\* expected, used up max_retries = 2 and the call raised
\* PodNeverReachedExpectedStatusError.
C17_Witness ==
    /\ given = PyInt(2)
    /\ expected_statuses = {"Running"}
    /\ Len(resps) = 2
    /\ resps[1].kind = "ApiException" /\ resps[1].status = 404
    /\ resps[2].kind = "pod" /\ resps[2].phase = "Pending"
    /\ pod_pc = "raised"
    /\ pod_exc = "PodNeverReachedExpectedStatusError"

====
